---- MODULE Spec2Model ----
(***************************************************************************)
(* Model of control/control.ino (ps2-remote): an Arduino sketch that       *)
(* learns IR codes into EEPROM and presses a button (digital               *)
(* potentiometer) when a learned code is received.                         *)
(*                                                                         *)
(* The sketch is single threaded.  pc is the position of the one thread.   *)
(* The environment acts through three things only: a remote transmitting   *)
(* a code (Transmit), the level of the learn button sampled by             *)
(* digitalRead, and power being cycled (PowerCycle).                       *)
(***************************************************************************)
EXTENDS Integers, Naturals, Sequences, FiniteSets, TLC

(* ---------------------------------------------------------------------- *)
(* Bounds of the model                                                     *)
(* ---------------------------------------------------------------------- *)

\* Bytes of EEPROM the model keeps (EEPROM.length() of the modelled board).
EEPROMLength == 12

\* Cap of the ghost step counter of one loop iteration.
StepCap == 16

\* Cap of the ghost counters of calls (fired, unacked, acks, presses).
CountCap == 3

(* ---------------------------------------------------------------------- *)
(* Program constants                                                       *)
(* ---------------------------------------------------------------------- *)

\* sizeof(long) on the AVR target, in bytes.
SizeofLong == 4

\* delay() arguments, in ms.
reset_delay == 100
\* Mutant: the delay of reset copied into power_off.
power_off_delay_copied == reset_delay
power_off_delay == 2500
loop_delay == 100
learn_delay == 100
blink_delay == 100

Pow2(n) == 2 ^ n
LongBits == 8 * SizeofLong

(* ---------------------------------------------------------------------- *)
(* C integers.  A long / unsigned long is its 32 bits, bit 0 the least     *)
(* significant, bit 31 the sign of a long.  A byte is a number 0..255.     *)
(* ---------------------------------------------------------------------- *)

BitIdx == 0..(LongBits - 1)
Long == [BitIdx -> {0, 1}]

\* Bit j of the number n.
BitOf(n, j) == (n \div Pow2(j)) % 2

\* (long)n of a byte n, and literals such as 0xffL: zero extended.
LongOfByte(n) == [j \in BitIdx |-> IF j < 8 THEN BitOf(n, j) ELSE 0]

\* The long with the bytes b0 (least significant) .. b3: 0xb3b2b1b0.
LongOfBytes(b0, b1, b2, b3) ==
    [j \in BitIdx |-> BitOf(<<b0, b1, b2, b3>>[(j \div 8) + 1], j % 8)]

\* a & b, a | b.
AndLong(a, b) == [j \in BitIdx |-> IF a[j] = 1 /\ b[j] = 1 THEN 1 ELSE 0]
OrLong(a, b) == [j \in BitIdx |-> IF a[j] = 1 \/ b[j] = 1 THEN 1 ELSE 0]
\* a << k: the bits shifted out at the top are lost (what avr-gcc emits,
\* also when a 1 reaches the sign bit).
ShlLong(a, k) == [j \in BitIdx |-> IF j >= k THEN a[j - k] ELSE 0]
\* a >> k of a long: arithmetic, the sign bit fills the top (avr-gcc).
ShrLong(a, k) == [j \in BitIdx |-> IF j + k < LongBits THEN a[j + k] ELSE a[LongBits - 1]]

\* Conversion of a long to byte: its low 8 bits, as a number.
RECURSIVE LowBits(_, _, _)
LowBits(a, j, n) == IF n = 0 THEN 0 ELSE a[j] + 2 * LowBits(a, j + 1, n - 1)
ToByte(a) == LowBits(a, 0, 8)

ZeroLong == LongOfByte(0)

\* Values the decoder can deliver (decode_results.value):
\* 0, 0x20DF10EF, 0xABCD1234 (top bit set), 0x80000080 (sign bits of the
\* top and the bottom byte), 0xFFFFFFFF (NEC repeat; an erased EEPROM slot).
Codes ==
    { ZeroLong,
      LongOfBytes(239, 16, 223, 32),
      LongOfBytes(52, 18, 205, 171),
      LongOfBytes(128, 0, 0, 128),
      LongOfBytes(255, 255, 255, 255) }

Min(a, b) == IF a < b THEN a ELSE b

(* ---------------------------------------------------------------------- *)
(* The table ir_map and the EEPROM                                         *)
(* ---------------------------------------------------------------------- *)

\* The initialiser of ir_map: codes 0, the two actions, and the NULL entry
\* that ends every scan.
ir_map_init ==
    [i \in 0..2 |->
        IF i = 0 THEN [ir_code |-> ZeroLong, fn |-> "reset"]
        ELSE IF i = 1 THEN [ir_code |-> ZeroLong, fn |-> "power_off"]
        ELSE [ir_code |-> ZeroLong, fn |-> "NULL"]]

\* The slots: the entries before the NULL entry.
Slots == {i \in DOMAIN ir_map_init : ir_map_init[i].fn # "NULL"}

\* An erased EEPROM reads 0xFF in every byte.
EEPROM_erased(len) == [a \in 0..(len - 1) |-> 255]

\* Mutant: the slot index not scaled by sizeof(long).
eeprom_addr_unscaled(idx, i) == i + idx

\* i + index * sizeof(long): the address of byte i of slot idx.
eeprom_addr(idx, i) == i + idx * SizeofLong

\* Mutant: the most significant byte first.
set_value_byte_bigendian(val, i) ==
    ToByte(ShrLong(AndLong(val, ShlLong(LongOfByte(255), 8 * (SizeofLong - 1 - i))),
                   8 * (SizeofLong - 1 - i)))

\* Mutant: the shift back forgotten, byte n = val & (0xffL << offset).
set_value_byte_noshift(val, i) == ToByte(AndLong(val, ShlLong(LongOfByte(255), 8 * i)))

\* byte n = (val & (0xffL << offset)) >> offset, with offset = i << 3.
set_value_byte(val, i) ==
    ToByte(ShrLong(AndLong(val, ShlLong(LongOfByte(255), 8 * i)), 8 * i))

\* The loop of set_value from byte i on: EEPROM.write while i < sizeof(long)
\* and the address is below EEPROM.length().
RECURSIVE set_value_loop(_, _, _, _, _)
set_value_loop(ee, len, idx, val, i) ==
    IF i < SizeofLong /\ eeprom_addr(idx, i) < len
    THEN set_value_loop([ee EXCEPT ![eeprom_addr(idx, i)] = set_value_byte(val, i)],
                        len, idx, val, i + 1)
    ELSE ee

set_value(ee, len, idx, val) == set_value_loop(ee, len, idx, val, 0)

\* Mutant: n read into a signed char, so (long)n sign extends.
get_values_or_signed(val, n, i) ==
    OrLong(val, ShlLong([j \in BitIdx |-> IF j < 8 THEN BitOf(n, j) ELSE BitOf(n, 7)], 8 * i))

\* val |= ((long)n << offset), with offset = i << 3.
get_values_or(val, n, i) == OrLong(val, ShlLong(LongOfByte(n), 8 * i))

\* The inner loop of get_values from byte i on, val being the value so far.
RECURSIVE get_values_loop(_, _, _, _, _)
get_values_loop(ee, len, idx, val, i) ==
    IF i < SizeofLong /\ eeprom_addr(idx, i) < len
    THEN get_values_loop(ee, len, idx, get_values_or(val, ee[eeprom_addr(idx, i)], i), i + 1)
    ELSE val

\* Mutant: the whole entry assigned from the value, which clears fn.
RECURSIVE get_values_from_entry(_, _, _, _)
get_values_from_entry(map, ee, len, idx) ==
    IF map[idx].fn # "NULL"
    THEN get_values_from_entry(
             [map EXCEPT ![idx] = [ir_code |-> get_values_loop(ee, len, idx, ZeroLong, 0),
                                   fn |-> "NULL"]],
             ee, len, idx + 1)
    ELSE map

\* get_values: every entry before the NULL entry gets the value read.
RECURSIVE get_values_from(_, _, _, _)
get_values_from(map, ee, len, idx) ==
    IF map[idx].fn # "NULL"
    THEN get_values_from([map EXCEPT ![idx].ir_code = get_values_loop(ee, len, idx, ZeroLong, 0)],
                         ee, len, idx + 1)
    ELSE map

get_values(map, ee, len) == get_values_from(map, ee, len, 0)

\* long val = ptr->value: unsigned long converted to long, which keeps
\* the 32 bits (the top bit becomes the sign).
get_code(value) == [j \in BitIdx |-> value[j]]

\* Mutant: the sense of down inverted.
press_button_val_inverted(down) == IF down THEN 0 ELSE 255

\* press_button: the wiper value written to the potentiometer.
press_button_val(down) == IF down THEN 255 ELSE 0

\* Mutant: the second delay of blink left out.
blink_ms_one_delay(count) == count * blink_delay

\* blink(count): count times LED on, delay, LED off, delay.
blink_ms(count) == count * (blink_delay + blink_delay)

\* Mutant: the result of decode() negated (the ! of the wait misplaced).
irrecv_decode_negated(state) == state # "STOP"

\* irrecv.decode(&results) is true exactly when the receiver holds a
\* transmission it has not been told to drop (resume()).
irrecv_decode(state) == state = "STOP"

\* Mutant: if (code = ir_map[index].ir_code), an assignment as condition.
code_matches_assign(c, entry) == entry.ir_code # ZeroLong

\* code == ir_map[index].ir_code
code_matches(c, entry) == c = entry.ir_code

\* Mutant: the index++ left out.
next_index_stuck(i) == i

\* index++ of the scans.
next_index(i) == i + 1

\* learned of a slot no learn run has written yet.
NotLearned == [set |-> FALSE, val |-> ZeroLong]

(* ---------------------------------------------------------------------- *)
(* State                                                                   *)
(* ---------------------------------------------------------------------- *)

VARIABLES
    pc,             \* position of the sketch
    index,          \* the loop variable of the scan in loop / update_codes
    code,           \* long code of loop
    ir_map,         \* the table in RAM
    results,        \* decode_results.value
    rcvstate,       \* receiver: "OFF", "IDLE" (listening), "STOP" (holds a transmission)
    rawvalue,       \* the transmission the receiver holds
    eeprom,         \* EEPROM bytes
    eeprom_length,  \* EEPROM.length()
    pot,            \* wiper register of the potentiometer (255 = button pressed)
    led,            \* LED_PIN
    \* history variables, read by the properties only
    held,           \* ms of delay() since the last press_button(true), while pressed
    elapsed,        \* ms of delay() in the current iteration of loop
    steps,          \* steps of the current iteration of loop (capped)
    learn_iter,     \* the current iteration sampled the learn button as pressed
    learned,        \* per slot, the last code update_codes passed to set_value
    loaded,         \* per slot, ir_code was last written by get_values
    delivered,      \* the decoder values delivered in the learn run of this iteration, in order
    fired,          \* per slot, calls of its fn in the current receive event
    act_fn,         \* the last fn called in the current receive event
    presses,        \* press_button(true) calls of that fn call
    releases,       \* press_button(false) calls of that fn call
    unacked,        \* successful decode() calls since the last resume()
    acks,           \* resume() calls since the last successful decode()
    waited          \* the learn wait polled without success since it began

decoder == <<results, rcvstate, rawvalue, unacked, acks>>
store == <<eeprom, eeprom_length, learned>>
actuator == <<pot, led, held, act_fn, presses, releases>>
timing == <<elapsed, steps, learn_iter>>
vars == <<pc, index, code, ir_map, decoder, store, actuator, timing,
          loaded, delivered, fired, waited>>

NoFired == [s \in Slots |-> 0]

Init ==
    /\ pc = "setup"
    /\ index = 0
    /\ code = ZeroLong
    /\ ir_map = ir_map_init
    /\ results = ZeroLong
    /\ rcvstate = "OFF"
    /\ rawvalue = ZeroLong
    /\ eeprom_length = EEPROMLength
    /\ eeprom = EEPROM_erased(EEPROMLength)
    /\ pot \in {0, 255}
    /\ led = FALSE
    /\ held = 0
    /\ elapsed = 0
    /\ steps = 0
    /\ learn_iter = FALSE
    /\ learned = [s \in Slots |-> NotLearned]
    /\ loaded = [s \in Slots |-> FALSE]
    /\ delivered = << >>
    /\ fired = NoFired
    /\ act_fn = "none"
    /\ presses = 0
    /\ releases = 0
    /\ unacked = 0
    /\ acks = 0
    /\ waited = FALSE

\* One more step of the current iteration.
Step == steps' = Min(steps + 1, StepCap)

\* delay(ms).
Delay(ms) ==
    /\ elapsed' = elapsed + ms
    /\ held' = IF pot = 255 THEN held + ms ELSE held

\* Mutant: the call of resume() left out.
Resume_left_out == UNCHANGED <<rcvstate, rawvalue, unacked, acks>>

\* irrecv.resume().
Resume ==
    /\ rcvstate' = "IDLE"
    /\ rawvalue' = ZeroLong
    /\ unacked' = 0
    /\ acks' = Min(acks + 1, CountCap)

(* ---------------------------------------------------------------------- *)
(* setup                                                                   *)
(* ---------------------------------------------------------------------- *)

\* setup(): enableIRIn, press_button(false), get_values.
setup ==
    /\ pc = "setup"
    /\ rcvstate' = "IDLE"
    /\ pot' = press_button_val(FALSE)
    /\ led' = FALSE
    /\ ir_map' = get_values(ir_map, eeprom, eeprom_length)
    /\ loaded' = [s \in Slots |-> TRUE]
    /\ pc' = "loop"
    /\ UNCHANGED <<index, code, results, rawvalue, unacked, acks, store, held,
                   act_fn, presses, releases, timing, delivered, fired, waited>>

(* ---------------------------------------------------------------------- *)
(* loop                                                                    *)
(* ---------------------------------------------------------------------- *)

\* if (!digitalRead(BUTTON_PIN)) update_codes();   level TRUE = HIGH.
\* A new iteration: the locals of the last one (code, index) are gone, and
\* the history variables of the iteration start afresh.
loop_button ==
    /\ pc = "loop"
    /\ \E level \in BOOLEAN :
        /\ learn_iter' = ~level
        /\ pc' = IF ~level THEN "update_codes" ELSE "decode"
    /\ index' = 0
    /\ code' = ZeroLong
    /\ steps' = 1
    /\ elapsed' = 0
    /\ held' = 0
    /\ delivered' = << >>
    /\ fired' = NoFired
    /\ act_fn' = "none"
    /\ presses' = 0
    /\ releases' = 0
    /\ waited' = FALSE
    /\ UNCHANGED <<ir_map, decoder, store, pot, led, loaded>>

\* if (irrecv.decode(&results)) { long code = get_code(&results); index = 0
loop_decode_true ==
    /\ pc = "decode"
    /\ irrecv_decode(rcvstate)
    /\ results' = rawvalue
    /\ code' = get_code(rawvalue)
    /\ index' = 0
    /\ unacked' = Min(unacked + 1, CountCap)
    /\ acks' = 0
    /\ fired' = NoFired
    /\ act_fn' = "none"
    /\ presses' = 0
    /\ releases' = 0
    /\ pc' = "scan"
    /\ Step
    /\ UNCHANGED <<ir_map, rcvstate, rawvalue, store, pot, led, held,
                   elapsed, learn_iter, loaded, delivered, waited>>

\* decode() false: the iteration ends.
loop_decode_false ==
    /\ pc = "decode"
    /\ ~irrecv_decode(rcvstate)
    /\ pc' = "loop"
    /\ Step
    /\ UNCHANGED <<index, code, ir_map, decoder, store, actuator,
                   elapsed, learn_iter, loaded, delivered, fired, waited>>

\* for (...; ir_map[index].fn != NULL; ...): the NULL entry ends the scan.
loop_scan_end ==
    /\ pc = "scan"
    /\ ir_map[index].fn = "NULL"
    /\ pc' = "ack"
    /\ Step
    /\ UNCHANGED <<index, code, ir_map, decoder, store, actuator,
                   elapsed, learn_iter, loaded, delivered, fired, waited>>

\* if (code == ir_map[index].ir_code) ir_map[index].fn();
loop_scan_call ==
    /\ pc = "scan"
    /\ ir_map[index].fn # "NULL"
    /\ code_matches(code, ir_map[index])
    /\ fired' = [fired EXCEPT ![index] = Min(@ + 1, CountCap)]
    /\ act_fn' = ir_map[index].fn
    /\ presses' = 0
    /\ releases' = 0
    /\ pc' = IF ir_map[index].fn = "reset" THEN "reset_press" ELSE "power_off_press"
    /\ Step
    /\ UNCHANGED <<index, code, ir_map, decoder, store, pot, led, held,
                   elapsed, learn_iter, loaded, delivered, waited>>

\* The code is not this entry's: index++.
loop_scan_skip ==
    /\ pc = "scan"
    /\ ir_map[index].fn # "NULL"
    /\ ~code_matches(code, ir_map[index])
    /\ index' = next_index(index)
    /\ Step
    /\ UNCHANGED <<pc, code, ir_map, decoder, store, actuator,
                   elapsed, learn_iter, loaded, delivered, fired, waited>>

\* delay(100); irrecv.resume();   the iteration ends.
loop_ack ==
    /\ pc = "ack"
    /\ Delay(loop_delay)
    /\ Resume
    /\ pc' = "loop"
    /\ Step
    /\ UNCHANGED <<index, code, ir_map, results, store, pot, led, act_fn,
                   presses, releases, learn_iter, loaded, delivered, fired, waited>>

(* ---------------------------------------------------------------------- *)
(* reset, power_off, press_button                                          *)
(* ---------------------------------------------------------------------- *)

\* press_button(down) called from an action: the wiper register and the
\* LED are written; held restarts when the button goes from released to
\* pressed.
press_button(down) ==
    /\ pot' = press_button_val(down)
    /\ led' = down
    /\ held' = IF down /\ pot # press_button_val(TRUE) THEN 0 ELSE held
    /\ presses' = IF down THEN Min(presses + 1, CountCap) ELSE presses
    /\ releases' = IF down THEN releases ELSE Min(releases + 1, CountCap)

\* Mutant: press_button(true) a second time instead of the release.
reset_second_arg_true == TRUE

\* The argument of the second press_button call of reset and of power_off.
reset_second_arg == FALSE
power_off_second_arg == FALSE

\* reset(): press_button(true);
reset_press ==
    /\ pc = "reset_press"
    /\ press_button(TRUE)
    /\ pc' = "reset_delay"
    /\ Step
    /\ UNCHANGED <<index, code, ir_map, decoder, store, act_fn,
                   elapsed, learn_iter, loaded, delivered, fired, waited>>

\* reset(): delay(100);
reset_hold ==
    /\ pc = "reset_delay"
    /\ Delay(reset_delay)
    /\ pc' = "reset_release"
    /\ Step
    /\ UNCHANGED <<index, code, ir_map, decoder, store, pot, led, act_fn,
                   presses, releases, learn_iter, loaded, delivered, fired, waited>>

\* reset(): press_button(false); and the return into the scan of loop,
\* which goes on with index++.
reset_release ==
    /\ pc = "reset_release"
    /\ press_button(reset_second_arg)
    /\ index' = next_index(index)
    /\ pc' = "scan"
    /\ Step
    /\ UNCHANGED <<code, ir_map, decoder, store, act_fn,
                   elapsed, learn_iter, loaded, delivered, fired, waited>>

\* power_off(): press_button(true);
power_off_press ==
    /\ pc = "power_off_press"
    /\ press_button(TRUE)
    /\ pc' = "power_off_delay"
    /\ Step
    /\ UNCHANGED <<index, code, ir_map, decoder, store, act_fn,
                   elapsed, learn_iter, loaded, delivered, fired, waited>>

\* power_off(): delay(2500);
power_off_hold ==
    /\ pc = "power_off_delay"
    /\ Delay(power_off_delay)
    /\ pc' = "power_off_release"
    /\ Step
    /\ UNCHANGED <<index, code, ir_map, decoder, store, pot, led, act_fn,
                   presses, releases, learn_iter, loaded, delivered, fired, waited>>

\* power_off(): press_button(false); and the return into the scan of loop.
power_off_release ==
    /\ pc = "power_off_release"
    /\ press_button(power_off_second_arg)
    /\ index' = next_index(index)
    /\ pc' = "scan"
    /\ Step
    /\ UNCHANGED <<code, ir_map, decoder, store, act_fn,
                   elapsed, learn_iter, loaded, delivered, fired, waited>>

(* ---------------------------------------------------------------------- *)
(* update_codes                                                            *)
(* ---------------------------------------------------------------------- *)

\* Mutant: the test of the for loop inverted.
update_codes_goto_inverted(map, i) == IF map[i].fn = "NULL" THEN "uc_wait" ELSE "decode"

\* Where the scan of update_codes goes with index i: the wait for a code,
\* or, at the NULL entry, back into loop at its decode().
update_codes_goto(map, i) == IF map[i].fn # "NULL" THEN "uc_wait" ELSE "decode"

\* blink(3); index = 0
update_codes_begin ==
    /\ pc = "update_codes"
    /\ led' = FALSE
    /\ Delay(blink_ms(3))
    /\ index' = 0
    /\ pc' = update_codes_goto(ir_map, 0)
    /\ Step
    /\ UNCHANGED <<code, ir_map, decoder, store, pot, act_fn, presses, releases,
                   learn_iter, loaded, delivered, fired, waited>>

\* while (!irrecv.decode(&results));   one unsuccessful poll.
update_codes_wait ==
    /\ pc = "uc_wait"
    /\ ~irrecv_decode(rcvstate)
    /\ waited' = TRUE
    /\ Step
    /\ UNCHANGED <<pc, index, code, ir_map, decoder, store, actuator,
                   elapsed, learn_iter, loaded, delivered, fired>>

\* The poll succeeds: long val = get_code(&results);
\* ir_map[index].ir_code = val;
update_codes_got ==
    /\ pc = "uc_wait"
    /\ irrecv_decode(rcvstate)
    /\ results' = rawvalue
    /\ unacked' = Min(unacked + 1, CountCap)
    /\ acks' = 0
    /\ ir_map' = [ir_map EXCEPT ![index].ir_code = get_code(rawvalue)]
    /\ loaded' = [loaded EXCEPT ![index] = FALSE]
    /\ delivered' = Append(delivered, rawvalue)
    /\ pc' = "uc_store"
    /\ Step
    /\ UNCHANGED <<index, code, rcvstate, rawvalue, store, actuator,
                   elapsed, learn_iter, fired, waited>>

\* set_value(index, ir_map[index].ir_code);
update_codes_store ==
    /\ pc = "uc_store"
    /\ eeprom' = set_value(eeprom, eeprom_length, index, ir_map[index].ir_code)
    /\ learned' = [learned EXCEPT ![index] = [set |-> TRUE, val |-> get_code(results)]]
    /\ pc' = "uc_resume"
    /\ Step
    /\ UNCHANGED <<index, code, ir_map, decoder, eeprom_length, actuator,
                   elapsed, learn_iter, loaded, delivered, fired, waited>>

\* delay(100); irrecv.resume();
update_codes_resume ==
    /\ pc = "uc_resume"
    /\ Delay(learn_delay)
    /\ Resume
    /\ pc' = "uc_blink"
    /\ Step
    /\ UNCHANGED <<index, code, ir_map, results, store, pot, led, act_fn,
                   presses, releases, learn_iter, loaded, delivered, fired, waited>>

\* blink(1); index++   and the test of the for loop.
update_codes_blink ==
    /\ pc = "uc_blink"
    /\ led' = FALSE
    /\ Delay(blink_ms(1))
    /\ index' = next_index(index)
    /\ waited' = FALSE
    /\ pc' = update_codes_goto(ir_map, next_index(index))
    /\ Step
    /\ UNCHANGED <<code, ir_map, decoder, store, pot, act_fn, presses, releases,
                   learn_iter, loaded, delivered, fired>>

(* ---------------------------------------------------------------------- *)
(* Environment                                                             *)
(* ---------------------------------------------------------------------- *)

\* A remote transmits c while the receiver listens: the receiver holds it
\* until resume().  A transmission while it holds one is lost.
Transmit ==
    /\ rcvstate = "IDLE"
    /\ \E c \in Codes : rawvalue' = c
    /\ rcvstate' = "STOP"
    /\ UNCHANGED <<pc, index, code, ir_map, results, unacked, acks, store,
                   actuator, timing, loaded, delivered, fired, waited>>

\* Power is removed and restored: RAM and the peripherals are as at the
\* first start, the EEPROM keeps its bytes.
PowerCycle ==
    /\ pc # "setup"
    /\ pc' = "setup"
    /\ index' = 0
    /\ code' = ZeroLong
    /\ ir_map' = ir_map_init
    /\ results' = ZeroLong
    /\ rcvstate' = "OFF"
    /\ rawvalue' = ZeroLong
    /\ pot' \in {0, 255}
    /\ led' = FALSE
    /\ held' = 0
    /\ elapsed' = 0
    /\ steps' = 0
    /\ learn_iter' = FALSE
    /\ loaded' = [s \in Slots |-> FALSE]
    /\ delivered' = << >>
    /\ fired' = NoFired
    /\ act_fn' = "none"
    /\ presses' = 0
    /\ releases' = 0
    /\ unacked' = 0
    /\ acks' = 0
    /\ waited' = FALSE
    /\ UNCHANGED store

Next ==
    \/ setup
    \/ loop_button
    \/ loop_decode_true
    \/ loop_decode_false
    \/ loop_scan_end
    \/ loop_scan_call
    \/ loop_scan_skip
    \/ loop_ack
    \/ reset_press
    \/ reset_hold
    \/ reset_release
    \/ power_off_press
    \/ power_off_hold
    \/ power_off_release
    \/ update_codes_begin
    \/ update_codes_wait
    \/ update_codes_got
    \/ update_codes_store
    \/ update_codes_resume
    \/ update_codes_blink
    \/ Transmit
    \/ PowerCycle

Spec == Init /\ [][Next]_vars

TypeOK ==
    /\ pc \in {"setup", "loop", "decode", "scan", "ack", "reset_press", "reset_delay",
               "reset_release", "power_off_press", "power_off_delay",
               "power_off_release", "update_codes", "uc_wait", "uc_store",
               "uc_resume", "uc_blink"}
    /\ index \in DOMAIN ir_map_init
    /\ \A i \in DOMAIN ir_map : ir_map[i].ir_code \in Long
    /\ \A a \in DOMAIN eeprom : eeprom[a] \in 0..255
    /\ pot \in {0, 255}
    /\ rcvstate \in {"OFF", "IDLE", "STOP"}

(* ---------------------------------------------------------------------- *)
(* Properties                                                              *)
(* ---------------------------------------------------------------------- *)

\* The positions inside update_codes (a learn run is in progress).
LearnPcs == {"update_codes", "uc_wait", "uc_store", "uc_resume", "uc_blink"}

\* The positions of an action at which it has pressed and not yet released.
PressedPcs == {"reset_delay", "reset_release", "power_off_delay", "power_off_release"}

\* The code a slot's four EEPROM bytes stand for, least significant first.
StoredCode(ee, s) ==
    LongOfBytes(ee[SizeofLong * s], ee[SizeofLong * s + 1],
                ee[SizeofLong * s + 2], ee[SizeofLong * s + 3])

NumSlots == Cardinality(Slots)

\* C1: when the scan of a receive event of loop has ended (position "ack"),
\* every slot whose last learned code is the received code has had its
\* action called exactly once in that receive event.
C1_LearnedCodeFiresOnce ==
    pc = "ack" =>
        \A s \in Slots : (learned[s].set /\ code = learned[s].val) => fired[s] = 1

\* C1 witness: after a power cycle, a receive of the top-bit-set code learned
\* into slot 1 has called power_off once.
C1_Witness ==
    /\ pc = "ack"
    /\ learned[1].set
    /\ loaded[1]
    /\ code = learned[1].val
    /\ code = LongOfBytes(52, 18, 205, 171)
    /\ fired[1] = 1

\* C2: outside a learn run and after setup, every slot's ir_code in ir_map
\* is the code its EEPROM bytes stand for.
C2_CacheEqualsStore ==
    (pc # "setup" /\ pc \notin LearnPcs) =>
        \A s \in Slots : ir_map[s].ir_code = StoredCode(eeprom, s)

\* C2 witness: a learn run has just returned with two different codes, one
\* of them with the top bit set, neither slot loaded by get_values since.
C2_Witness ==
    /\ pc = "decode"
    /\ learn_iter
    /\ Len(delivered) = NumSlots
    /\ ~loaded[0] /\ ~loaded[1]
    /\ ir_map[0].ir_code = LongOfBytes(52, 18, 205, 171)
    /\ ir_map[1].ir_code = LongOfBytes(239, 16, 223, 32)

(* ---------------------------------------------------------------------- *)
(* set_value and get_values on their own: one set_value(s, c) on a store   *)
(* with any of three earlier contents, then power cycles and setup.        *)
(* ---------------------------------------------------------------------- *)

\* The bytes the codes of this specification are made of.
RoundTripBytes == {0, 127, 128, 255}

RoundTripCodes ==
    {LongOfBytes(b0, b1, b2, b3) :
        b0 \in RoundTripBytes, b1 \in RoundTripBytes,
        b2 \in RoundTripBytes, b3 \in RoundTripBytes}

\* What every byte of the store holds before the set_value.
RoundTripFill == {0, 90, 255}

InitRoundTrip ==
    /\ pc = "set_value"
    /\ index \in Slots
    /\ code \in RoundTripCodes
    /\ ir_map = ir_map_init
    /\ results = ZeroLong
    /\ rcvstate = "OFF"
    /\ rawvalue = ZeroLong
    /\ eeprom_length = EEPROMLength
    /\ \E fill \in RoundTripFill : eeprom = [a \in 0..(EEPROMLength - 1) |-> fill]
    /\ pot = 0
    /\ led = FALSE
    /\ held = 0
    /\ elapsed = 0
    /\ steps = 0
    /\ learn_iter = FALSE
    /\ learned = [s \in Slots |-> NotLearned]
    /\ loaded = [s \in Slots |-> FALSE]
    /\ delivered = << >>
    /\ fired = NoFired
    /\ act_fn = "none"
    /\ presses = 0
    /\ releases = 0
    /\ unacked = 0
    /\ acks = 0
    /\ waited = FALSE

\* set_value(index, code), as update_codes calls it after it has put the
\* code into ir_map.
call_set_value ==
    /\ pc = "set_value"
    /\ ir_map' = [ir_map EXCEPT ![index].ir_code = code]
    /\ eeprom' = set_value(eeprom, eeprom_length, index, code)
    /\ learned' = [learned EXCEPT ![index] = [set |-> TRUE, val |-> code]]
    /\ pc' = "stored"
    /\ UNCHANGED <<index, code, decoder, eeprom_length, actuator, timing,
                   loaded, delivered, fired, waited>>

NextRoundTrip ==
    \/ call_set_value
    \/ (pc \in {"stored", "loop"} /\ PowerCycle)
    \/ setup

SpecRoundTrip == InitRoundTrip /\ [][NextRoundTrip]_vars

\* C3: a slot that get_values has loaded since the last set_value on it
\* (a power cycle came between) holds exactly the code given to set_value.
C3_RoundTrip ==
    \A s \in Slots : (loaded[s] /\ learned[s].set) => ir_map[s].ir_code = learned[s].val

\* C3 witness: slot 1, the code 0x80FF7F80 (top bit set), written over a
\* store of 0x5A bytes, is back in ir_map after the power cycle.
C3_Witness ==
    /\ pc = "loop"
    /\ loaded[1]
    /\ learned[1].set
    /\ learned[1].val = LongOfBytes(128, 127, 255, 128)
    /\ ir_map[1].ir_code = LongOfBytes(128, 127, 255, 128)
    /\ eeprom[0] = 90

\* How many of the codes delivered in the current learn run set_value has
\* stored: all of them, but the last one while it is still to be stored.
StoredUpTo == IF pc = "uc_store" THEN Len(delivered) - 1 ELSE Len(delivered)

\* C4: in a learn run the k-th delivered code goes to slot k-1, one code per
\* slot in ascending order, unchanged into ir_map and into the EEPROM; the
\* run returns with every slot written; and a receive of one of these codes
\* right after the return (same iteration of loop) calls that slot's action.
C4_LearnFlow ==
    /\ \A k \in 1..StoredUpTo :
          /\ ir_map[k - 1].ir_code = delivered[k]
          /\ StoredCode(eeprom, k - 1) = delivered[k]
    /\ pc \in LearnPcs =>
          Len(delivered) = index + (IF pc \in {"uc_store", "uc_resume", "uc_blink"} THEN 1 ELSE 0)
    /\ (learn_iter /\ pc \notin LearnPcs) => Len(delivered) = NumSlots
    /\ (learn_iter /\ pc = "ack") =>
          \A k \in 1..Len(delivered) : code = delivered[k] => fired[k - 1] = 1

\* C4 witness: 0xABCD1234 then 0x20DF10EF were learned, and the receive of
\* 0xABCD1234 polled right after the return has called reset, not power_off.
C4_Witness ==
    /\ learn_iter
    /\ pc = "ack"
    /\ delivered = <<LongOfBytes(52, 18, 205, 171), LongOfBytes(239, 16, 223, 32)>>
    /\ code = LongOfBytes(52, 18, 205, 171)
    /\ fired[0] = 1
    /\ fired[1] = 0

\* C5: a call of reset presses once, holds for its delay, releases once,
\* in this order, and returns with the button released.
C5_ResetOnePulse ==
    /\ pc = "reset_delay" =>
          act_fn = "reset" /\ presses = 1 /\ releases = 0 /\ pot = 255 /\ held = 0
    /\ pc = "reset_release" =>
          act_fn = "reset" /\ presses = 1 /\ releases = 0 /\ pot = 255 /\ held = reset_delay
    /\ (act_fn = "reset" /\ pc \notin {"reset_press", "reset_delay", "reset_release"}) =>
          presses = 1 /\ releases = 1 /\ pot = 0 /\ held = reset_delay

\* C5 witness: reset has returned into the scan.
C5_Witness ==
    /\ pc = "scan"
    /\ act_fn = "reset"
    /\ fired[0] = 1
    /\ presses = 1
    /\ releases = 1
    /\ pot = 0

\* The hold time of power_off, in ms.
PowerOffHoldMs == 2500

\* C6: a call of power_off keeps the button pressed, with no release, until
\* at least PowerOffHoldMs of delay have passed since it pressed.
C6_PowerOffHold ==
    /\ pc = "power_off_delay" =>
          act_fn = "power_off" /\ presses = 1 /\ releases = 0 /\ pot = 255
    /\ pc = "power_off_release" =>
          presses = 1 /\ releases = 0 /\ pot = 255 /\ held >= PowerOffHoldMs
    /\ (act_fn = "power_off" /\ pc \notin {"power_off_press", "power_off_delay", "power_off_release"}) =>
          presses = 1 /\ releases = 1 /\ held >= PowerOffHoldMs

\* C6 witness: power_off has returned after its hold.
C6_Witness ==
    /\ pc = "scan"
    /\ act_fn = "power_off"
    /\ fired[1] = 1
    /\ releases = 1
    /\ held >= PowerOffHoldMs

\* C7: from the end of setup on, the button is pressed (wiper register not
\* 0) only inside reset or power_off, between their two press_button calls;
\* at the start of every iteration of loop and everywhere in update_codes
\* it is released.
C7_ReleasedAtRest ==
    (pc # "setup" /\ pc \notin PressedPcs) => pot = 0

\* C7 witness: the start of an iteration of loop after power_off has run.
C7_Witness ==
    /\ pc = "loop"
    /\ act_fn = "power_off"
    /\ releases = 1
    /\ pot = 0

\* C8: never two successful decode() calls without a resume() between, never
\* two resume() calls for one successful decode(), and at every poll of
\* loop and of update_codes the last success has been resumed.
C8_AckDiscipline ==
    /\ unacked <= 1
    /\ acks <= 1
    /\ pc \in {"decode", "uc_wait"} => unacked = 0
    /\ unacked = 1 => rcvstate = "STOP"

\* C8 witness: in a learn run the first code was acknowledged and a second
\* transmission is held for the next poll.
C8_Witness ==
    /\ pc = "uc_wait"
    /\ index = 1
    /\ acks = 1
    /\ unacked = 0
    /\ rcvstate = "STOP"

\* The steps and the ms of delay of the longest iteration of loop without a
\* learn run: every slot's action called.
LoopStepBound == 4 * NumSlots + 4
LoopMsBound == reset_delay + power_off_delay + loop_delay

\* C9: an iteration of loop that sampled the learn button as not pressed
\* takes at most LoopStepBound steps and LoopMsBound ms of delay, whatever
\* is received; only an iteration with a learn run goes beyond.
C9_LoopIterationBounded ==
    ~learn_iter => (steps <= LoopStepBound /\ elapsed <= LoopMsBound)

\* C9 witness: the longest iteration without a learn run has ended.
C9_Witness ==
    /\ ~learn_iter
    /\ pc = "loop"
    /\ steps = LoopStepBound
    /\ elapsed = LoopMsBound

\* C10: when two slots hold the received code, the scan calls only the
\* action of the lower slot.
C10_FirstMatchOnly ==
    pc = "ack" =>
        \A s1 \in Slots : \A s2 \in Slots :
            (s1 < s2 /\ code = ir_map[s1].ir_code /\ code = ir_map[s2].ir_code)
                => fired[s2] = 0

(* ---------------------------------------------------------------------- *)
(* The sketch on a store too small for the slots                           *)
(* ---------------------------------------------------------------------- *)

\* // #define DEBUG: the macro is not defined in the build.
DEBUG == FALSE

\* The check of setup, inside #ifdef DEBUG: the number of entries of ir_map
\* less one, compared with EEPROM.length() * sizeof(long); when it is true
\* setup prints its warning.
setup_warns(len) ==
    /\ DEBUG
    /\ Cardinality(DOMAIN ir_map_init) - 1 > len * SizeofLong

\* EEPROM.length() values below the 8 bytes the two slots need.
SmallStoreLengths == {2, 6}

InitSmallStore ==
    /\ pc = "setup"
    /\ index = 0
    /\ code = ZeroLong
    /\ ir_map = ir_map_init
    /\ results = ZeroLong
    /\ rcvstate = "OFF"
    /\ rawvalue = ZeroLong
    /\ eeprom_length \in SmallStoreLengths
    /\ eeprom = EEPROM_erased(eeprom_length)
    /\ pot \in {0, 255}
    /\ led = FALSE
    /\ held = 0
    /\ elapsed = 0
    /\ steps = 0
    /\ learn_iter = FALSE
    /\ learned = [s \in Slots |-> NotLearned]
    /\ loaded = [s \in Slots |-> FALSE]
    /\ delivered = << >>
    /\ fired = NoFired
    /\ act_fn = "none"
    /\ presses = 0
    /\ releases = 0
    /\ unacked = 0
    /\ acks = 0
    /\ waited = FALSE

SpecSmallStore == InitSmallStore /\ [][Next]_vars

\* The bytes all slots need.
SlotBytes == NumSlots * SizeofLong

\* Bits 8j .. 8j+7 of a code, as a number.
CodeByte(c, j) == LowBits(c, 8 * j, 8)

\* First half of C11: on a store too small for all slots, setup has
\* reported it.
C11_Reported == (pc # "setup" /\ SlotBytes > eeprom_length) => setup_warns(eeprom_length)

\* Second half of C11: the set_value of a learn run has written all the
\* bytes of its slot.
C11_NoTruncation ==
    pc = "uc_resume" =>
        \A i \in 0..(SizeofLong - 1) :
            /\ SizeofLong * index + i \in DOMAIN eeprom
            /\ eeprom[SizeofLong * index + i] = CodeByte(ir_map[index].ir_code, i)

\* C11: a store too small for all slots is reported by setup, and no
\* set_value writes fewer bytes than the width of a slot.
C11_CapacityDetected == C11_Reported /\ C11_NoTruncation

(* ---------------------------------------------------------------------- *)
(* Properties of the receive event and of the learn run                    *)
(* ---------------------------------------------------------------------- *)

\* The code of the current receive event is no slot's code.
NoMatch == \A s \in Slots : code # ir_map[s].ir_code

\* The positions of loop from its successful decode() to its resume().
ScanPcs == {"scan", "ack"}

\* The positions inside reset and power_off.
ActionPcs == {"reset_press", "power_off_press"} \cup PressedPcs

\* C12: in a receive event whose code is no slot's code no action is
\* called and the button is never pressed; its steps leave ir_map and the
\* EEPROM as they are, and its last step resumes the decoder.
C12_UnmatchedIsNoOp ==
    /\ []((pc \in ScanPcs /\ NoMatch) =>
            (fired = NoFired /\ act_fn = "none" /\ presses = 0 /\ pot = 0))
    /\ [][(pc \in ScanPcs /\ NoMatch /\ pc' # "setup") =>
            /\ pc' \in ScanPcs \cup {"loop"}
            /\ ir_map' = ir_map
            /\ eeprom' = eeprom
            /\ pot' = 0
            /\ fired' = NoFired
            /\ (pc' = "loop" => (rcvstate' = "IDLE" /\ unacked' = 0))]_vars

\* C12 witness: slot 0 and slot 1 have learned codes, 0xABCD1234 is neither,
\* and its receive event has been resumed with nothing called.
C12_Witness ==
    /\ pc = "loop"
    /\ learned[0].set
    /\ learned[1].set
    /\ code = LongOfBytes(52, 18, 205, 171)
    /\ NoMatch
    /\ fired = NoFired
    /\ acks = 1
    /\ rcvstate = "IDLE"
    /\ pot = 0

\* C13: set_value(index, code) leaves in the four bytes from
\* index * sizeof(long) on the bits 8j .. 8j+7 of the code in byte j, and
\* every other byte of the store as it was.
C13_PersistedLayout ==
    [][(pc = "set_value" /\ pc' = "stored") =>
        \A a \in DOMAIN eeprom :
            eeprom'[a] =
                IF a \in (SizeofLong * index)..(SizeofLong * index + SizeofLong - 1)
                THEN CodeByte(code, a - SizeofLong * index)
                ELSE eeprom[a]]_vars

\* C13 witness: 0x80FF7F80 written to slot 1 of a store of 0x5A bytes.
C13_Witness ==
    /\ pc = "stored"
    /\ index = 1
    /\ code = LongOfBytes(128, 127, 255, 128)
    /\ eeprom[3] = 90
    /\ eeprom[4] = 128
    /\ eeprom[5] = 127
    /\ eeprom[6] = 255
    /\ eeprom[7] = 128
    /\ eeprom[8] = 90

\* C14: in the wait of update_codes nothing is called and the button is
\* released; and as long as no transmission arrives (and power stays on)
\* every step leaves the sketch in the wait, at the same slot, with ir_map,
\* the EEPROM and the button unchanged.
C14_BlockedWithoutSignal ==
    /\ [](pc = "uc_wait" => (pot = 0 /\ fired = NoFired /\ act_fn = "none"))
    /\ [][(pc = "uc_wait" /\ rcvstate # "STOP" /\ rcvstate' = rcvstate /\ pc' # "setup") =>
            /\ pc' = "uc_wait"
            /\ index' = index
            /\ ir_map' = ir_map
            /\ eeprom' = eeprom
            /\ delivered' = delivered
            /\ fired' = fired
            /\ pot' = 0]_vars

\* C14 witness: the wait for the code of slot 1 has polled without success
\* for as many steps as the step counter counts, and still listens.
C14_Witness ==
    /\ pc = "uc_wait"
    /\ index = 1
    /\ waited
    /\ steps = StepCap
    /\ rcvstate = "IDLE"
    /\ pot = 0

\* The positions of loop after a successful decode() of its own.
MatchPcs == ScanPcs \cup ActionPcs

\* C15 as claimed: an iteration that sampled the learn button as pressed
\* does not get to a successful matching poll, and calls no action.
C15_LearnOrPoll ==
    learn_iter => (pc \notin MatchPcs /\ fired = NoFired)

\* C15 as amended: the button sample decides between update_codes and the
\* poll as the next step; while update_codes runs there is no matching and
\* no call of an action; and an iteration with a learn run gets to the poll
\* of loop only after update_codes has written every slot.
C15_LearnThenPoll ==
    /\ [](~learn_iter => (pc \notin LearnPcs /\ delivered = << >>))
    /\ [](pc \in LearnPcs => (learn_iter /\ fired = NoFired /\ act_fn = "none"))
    /\ []((learn_iter /\ pc \in {"decode"} \cup MatchPcs) => Len(delivered) = NumSlots)
    /\ [][(pc = "loop" /\ pc' \notin {"loop", "setup"}) =>
            pc' = IF learn_iter' THEN "update_codes" ELSE "decode"]_vars

\* C15 witness: in an iteration with a learn run, the poll after the return
\* of update_codes has received the code just learned into slot 1, and
\* power_off is holding the button.
C15_Witness ==
    /\ learn_iter
    /\ pc = "power_off_delay"
    /\ Len(delivered) = NumSlots
    /\ code = delivered[2]
    /\ fired[1] = 1
    /\ pot = 255

\* C16 as claimed: when the feedback pulse of a slot is about to be
\* emitted, the decoder has not been resumed for that slot's code yet.
C16_PulseBeforeAck ==
    pc = "uc_blink" => (unacked = 1 /\ acks = 0)

\* C16 as amended: for every slot the steps are, in this order, the wait
\* for a code, set_value, delay(100) with resume(), and then the feedback
\* pulse blink(1): the decoder listens again before the pulse.
C16_LearnStepOrder ==
    /\ [](pc = "uc_store" =>
            (unacked = 1 /\ rcvstate = "STOP" /\ ir_map[index].ir_code = get_code(results)))
    /\ [](pc = "uc_resume" =>
            (unacked = 1 /\ rcvstate = "STOP" /\ StoredCode(eeprom, index) = get_code(results)))
    /\ [](pc = "uc_blink" =>
            (unacked = 0 /\ acks = 1 /\ StoredCode(eeprom, index) = get_code(results)))
    /\ [][(pc \in LearnPcs /\ pc' \notin {pc, "setup"}) =>
            CASE pc = "update_codes" -> pc' = "uc_wait" /\ elapsed' = elapsed + 600
              [] pc = "uc_wait" -> pc' = "uc_store" /\ rcvstate = "STOP"
              [] pc = "uc_store" ->
                    pc' = "uc_resume" /\ StoredCode(eeprom', index) = get_code(results)
              [] pc = "uc_resume" ->
                    pc' = "uc_blink" /\ rcvstate' = "IDLE" /\ elapsed' = elapsed + 100
              [] pc = "uc_blink" ->
                    /\ pc' \in {"uc_wait", "decode"}
                    /\ index' = index + 1
                    /\ elapsed' = elapsed + 200
                    /\ ~led']_vars

\* C16 witness: the code of slot 0 is stored and resumed, its pulse is
\* still to come, and the decoder already holds the next transmission.
C16_Witness ==
    /\ pc = "uc_blink"
    /\ index = 0
    /\ StoredCode(eeprom, 0) = LongOfBytes(52, 18, 205, 171)
    /\ acks = 1
    /\ rcvstate = "STOP"
    /\ rawvalue = LongOfBytes(239, 16, 223, 32)

\* C17: from the successful decode() of loop to its resume() the receiver
\* keeps the one transmission (it takes no other), with no further poll and
\* no resume; inside reset and power_off every step is the next one of the
\* press / delay / release sequence, the holds are 100 ms and 2500 ms, and
\* no other action is called meanwhile.
C17_NoCancellation ==
    /\ [](pc \in MatchPcs => (rcvstate = "STOP" /\ unacked = 1 /\ acks = 0))
    /\ [](pc = "reset_release" => held = 100)
    /\ [](pc = "power_off_release" => held = 2500)
    /\ [][(pc \in ActionPcs /\ pc' # "setup") =>
            /\ rcvstate' = rcvstate
            /\ rawvalue' = rawvalue
            /\ results' = results
            /\ code' = code
            /\ fired' = fired
            /\ act_fn' = act_fn
            /\ CASE pc = "reset_press" -> pc' = "reset_delay" /\ pot' = 255
                 [] pc = "reset_delay" -> pc' = "reset_release" /\ pot' = 255
                 [] pc = "reset_release" -> pc' = "scan" /\ pot' = 0
                 [] pc = "power_off_press" -> pc' = "power_off_delay" /\ pot' = 255
                 [] pc = "power_off_delay" -> pc' = "power_off_release" /\ pot' = 255
                 [] pc = "power_off_release" -> pc' = "scan" /\ pot' = 0]_vars

\* C17 witness: power_off has held the button for its 2500 ms while the
\* receiver still holds the transmission that started it.
C17_Witness ==
    /\ pc = "power_off_release"
    /\ held = 2500
    /\ pot = 255
    /\ rcvstate = "STOP"
    /\ rawvalue = results
    /\ unacked = 1
    /\ fired[1] = 1

\* C18: everywhere in update_codes no action has been called and the
\* button is released; its steps stay in update_codes until the return to
\* the poll of loop, and a code the decoder delivers there goes into ir_map
\* at the slot of the run, whatever the slots hold.
C18_LearnCapturesOnly ==
    /\ [](pc \in LearnPcs =>
            (pot = 0 /\ fired = NoFired /\ act_fn = "none" /\ presses = 0))
    /\ [][(pc \in LearnPcs /\ pc' # "setup") =>
            /\ pc' \in LearnPcs \cup {"decode"}
            /\ pot' = 0
            /\ fired' = NoFired
            /\ (pc = "uc_wait" /\ pc' = "uc_store") =>
                  /\ ir_map'[index].ir_code = rawvalue
                  /\ delivered' = Append(delivered, rawvalue)]_vars

\* C18 witness: the learn run has taken, for slot 0, the code 0xFFFFFFFF
\* that slot 1 holds since setup; nothing was called.
C18_Witness ==
    /\ pc = "uc_store"
    /\ index = 0
    /\ results = LongOfBytes(255, 255, 255, 255)
    /\ loaded[1]
    /\ ir_map[1].ir_code = results
    /\ ir_map[0].ir_code = results
    /\ fired = NoFired
    /\ pot = 0

\* C19: slot 0 is bound to reset and slot 1 to power_off, always; outside
\* update_codes and setup no step changes the EEPROM or an ir_code (a power
\* cycle, which clears the RAM, apart); the EEPROM is written by the
\* set_value step of update_codes only, and ir_map is loaded from it by
\* setup only.
C19_OnlyLearnWrites ==
    /\ [](ir_map[0].fn = "reset" /\ ir_map[1].fn = "power_off" /\ ir_map[2].fn = "NULL")
    /\ [][(pc \notin LearnPcs /\ pc # "setup" /\ pc' # "setup") =>
            /\ eeprom' = eeprom
            /\ \A s \in Slots : ir_map'[s].ir_code = ir_map[s].ir_code]_vars
    /\ [][eeprom' # eeprom => pc = "uc_store"]_vars
    /\ [][(\E s \in Slots : loaded'[s] /\ ~loaded[s]) => pc = "setup"]_vars

\* C19 witness: after a learn run, a receive event that called both actions
\* has ended, and both slots still hold the learned code in RAM and EEPROM.
C19_Witness ==
    /\ pc = "loop"
    /\ ~learn_iter
    /\ fired[0] = 1
    /\ fired[1] = 1
    /\ learned[0].set
    /\ ~loaded[0]
    /\ \A s \in Slots :
          /\ ir_map[s].ir_code = LongOfBytes(52, 18, 205, 171)
          /\ StoredCode(eeprom, s) = LongOfBytes(52, 18, 205, 171)

====
